---- MODULE Spec2Model ----
(***************************************************************************)
(* surf-middleware-cache: the cache decision engine of src/src/lib.rs      *)
(* (Cache::run, Cache::conditional_fetch, Cache::remote_fetch and the      *)
(* Warning-header helpers) over a CacheManager, a Remote Fetcher           *)
(* (next.run) and a Freshness Policy.                                      *)
(*                                                                         *)
(* One engine instance (one CacheMode) serves one request after another,   *)
(* or two at a time.  A run is cut at its await points: get, next.run,     *)
(* put, delete.                                                            *)
(***************************************************************************)
EXTENDS Integers, Sequences, FiniteSets, TLC

VARIABLES
    mode,         \* Cache.mode, fixed at construction
    cache,        \* the CacheManager's store: cache key -> stored response or None
    pc,           \* where the run is: idle, or awaiting get, next (next.run), put, delete, or done
    req,          \* the request of the current run
    origin,       \* what the Remote Fetcher answers this run when it is asked
    policyFresh,  \* the Freshness Policy's verdict on the entry get returned
    hit,          \* what get returned this run, after the 1xx strip of lines 49-63
    fetched,      \* the response next.run returned this run
    entry0,       \* the store's entry under the request's key when the run began
    calls,        \* the collaborator calls of this run, in order
    result,       \* how the run ended
    frame,        \* the function remote_fetch or put returns to
    putting,      \* the response handed to the put that is awaited
    served,       \* the number of runs begun so far
    suspended     \* the other run in progress, suspended at an await, if there are two

vars == <<mode, cache, pc, req, origin, policyFresh, hit, fetched, entry0, calls, result,
          frame, putting, served, suspended>>

----------------------------------------------------------------------------
(* Bounds and value sets *)

\* The engine serves up to MaxRuns requests, one after another.
MaxRuns == 2

Bodies == {"body-1", "body-2"}

\* The body of Response::new, and of a response whose body has been read.
EmptyBody == ""

\* A header has up to MaxHeaderValues values.
MaxHeaderValues == 3

\* Option<T>: None is the empty set, Some(x) the singleton.
None == {}

Some(x) == {x}

Unwrap(o) == CHOOSE x \in o : TRUE

CacheMode == {"Default", "NoStore", "Reload", "NoCache", "ForceCache", "OnlyIfCached"}

MethodGet == "GET"

MethodHead == "HEAD"

MethodPost == "POST"

Methods == {MethodGet, MethodHead, MethodPost}

\* The URLs requests are made to: http(s) URLs, so Url::host() is Some and the
\* expect of build_warning does not fire in a run.
Urls == {"https://example.com/a"}

\* Url::host(): the host of each URL a request or a warning is built from; a
\* URL of a scheme without authority has none.
url_host ==
    ("https://example.com/a" :> Some("example.com"))
    @@ ("http://10.0.0.7:8080/x" :> Some("10.0.0.7"))
    @@ ("data:text/plain,hi" :> None)

Host(url) == Unwrap(url_host[url])

Requests == [method : Methods, url : Urls]

\* req_key: "{method}:{url}".
req_key(rq) == <<rq.method, rq.url>>

Keys == {req_key(rq) : rq \in Requests}

StatusOk == 200

StatusNotModified == 304

\* The statuses an origin answers with: 200, 304, a client error, a server error.
Statuses == {StatusOk, StatusNotModified, 404, 500}

\* http_types::StatusCode::is_server_error
is_server_error(status) == status >= 500 /\ status <= 599

----------------------------------------------------------------------------
(* Header values.  A Warning value is the sequence of its whitespace-      *)
(* separated tokens (the quoted warn-text and warn-date are kept as one    *)
(* token each: nothing reads past the second token).                       *)

\* warn-code = 3DIGIT
WarnCodes == 100..999

\* str::parse::<usize>: the decimal strings that occur are those of three
\* digits; anything else here (a host, a pseudonym) fails to parse.
Decimal == [tok \in {ToString(n) : n \in WarnCodes} |->
               CHOOSE n \in WarnCodes : ToString(n) = tok]

ParseUsize(tok) == IF tok \in DOMAIN Decimal THEN Some(Decimal[tok]) ELSE None

HttpDate == "\"<http-date>\""

\* A Warning value in the RFC 2616 syntax: warn-code SP warn-agent SP warn-text.
RfcWarning(code, agent, text) == <<ToString(code), agent, text>>

\* fn build_warning: "{host} {code} {message:?} \"{date}\"".
build_warning(url, code, message) == <<Host(url), ToString(code), message, HttpDate>>

\* Cache-Control values, and the characters of each.
Chars ==
    ("no-cache" :>
          <<"n","o","-","c","a","c","h","e">>)
    @@ ("max-age=0, Must-Revalidate" :>
          <<"m","a","x","-","a","g","e","=","0",","," ","M","u","s","t","-",
            "R","e","v","a","l","i","d","a","t","e">>)
    @@ ("max-age=1733992, must-revalidate" :>
          <<"m","a","x","-","a","g","e","=","1","7","3","3","9","9","2",",",
            " ","m","u","s","t","-","r","e","v","a","l","i","d","a","t","e">>)
    @@ ("MUST-REVALIDATE" :>
          <<"M","U","S","T","-","R","E","V","A","L","I","D","A","T","E">>)
    @@ ("proxy-revalidate" :>
          <<"p","r","o","x","y","-","r","e","v","a","l","i","d","a","t","e">>)
    @@ ("no-store" :>
          <<"n","o","-","s","t","o","r","e">>)

Upper ==
    ("A" :> "a") @@ ("B" :> "b") @@ ("C" :> "c") @@ ("D" :> "d") @@ ("E" :> "e")
    @@ ("F" :> "f") @@ ("G" :> "g") @@ ("H" :> "h") @@ ("I" :> "i") @@ ("J" :> "j")
    @@ ("K" :> "k") @@ ("L" :> "l") @@ ("M" :> "m") @@ ("N" :> "n") @@ ("O" :> "o")
    @@ ("P" :> "p") @@ ("Q" :> "q") @@ ("R" :> "r") @@ ("S" :> "s") @@ ("T" :> "t")
    @@ ("U" :> "u") @@ ("V" :> "v") @@ ("W" :> "w") @@ ("X" :> "x") @@ ("Y" :> "y")
    @@ ("Z" :> "z")

\* str::to_lowercase
to_lowercase(s) == [i \in 1..Len(s) |-> IF s[i] \in DOMAIN Upper THEN Upper[s[i]] ELSE s[i]]

\* str::contains
contains(s, pat) ==
    \E i \in 0..(Len(s) - Len(pat)) : \A j \in 1..Len(pat) : s[i + j] = pat[j]

MustRevalidateDirective == <<"m","u","s","t","-","r","e","v","a","l","i","d","a","t","e">>

\* The header sets an origin (or a cache between it and this one) sends: the
\* values of the Warning header and of the Cache-Control header, in order (<<>>
\* is no header; a header sent on two lines has two values).
\* Warning values come in the RFC syntax and in the layout build_warning writes.
HeaderSets ==
    { [warning |-> <<>>, cacheControl |-> <<>>],
      [warning |-> <<>>, cacheControl |-> <<"max-age=0, Must-Revalidate">>],
      [warning |-> << RfcWarning(110, "proxy", "\"Response is stale\"") >>,
       cacheControl |-> <<"no-cache">>],
      [warning |-> << build_warning("https://example.com/a", 110, "\"Response is stale\"") >>,
       cacheControl |-> <<"max-age=0, Must-Revalidate">>],
      [warning |-> << build_warning("https://example.com/a", 214, "\"Transformation applied\"") >>,
       cacheControl |-> <<>>] }

Response(status, headers, body) ==
    [status |-> status, warning |-> headers.warning, cacheControl |-> headers.cacheControl,
     body |-> body]

Responses == {Response(s, h, b) : s \in Statuses, h \in HeaderSets, b \in Bodies}

\* HeaderValues::as_str: HeaderValues derefs to its first HeaderValue.
as_str(values) == values[1]

\* fn must_revalidate
must_revalidate(res) ==
    IF res.cacheControl # <<>>
    THEN contains(to_lowercase(Chars[as_str(res.cacheControl)]), MustRevalidateDirective)
    ELSE FALSE

\* fn get_warning_code: the second whitespace token of the first Warning value.
get_warning_code(res) ==
    IF res.warning = <<>> THEN None
    ELSE LET tokens == as_str(res.warning)
         IN  IF Len(tokens) < 2 THEN None ELSE ParseUsize(tokens[2])

remove_header_Warning(res) == [res EXCEPT !.warning = <<>>]

append_header_Warning(res, value) == [res EXCEPT !.warning = Append(@, value)]

\* Cache::run, lines 49-63: the strip of a 1xx Warning from what get returned.
strip_1xx(res) ==
    LET warning_code == get_warning_code(res)
    IN  IF warning_code # None /\ Unwrap(warning_code) >= 100 /\ Unwrap(warning_code) < 200
        THEN remove_header_Warning(res)
        ELSE res

----------------------------------------------------------------------------
(* How a run ends *)

NoResult == [kind |-> "none", res |-> None, err |-> ""]

Ok(res) == [kind |-> "ok", res |-> Some(res), err |-> ""]

Err(e) == [kind |-> "err", res |-> None, err |-> e]

\* unimplemented!(), expect(): the task unwinds, run returns nothing.
Panic(what) == [kind |-> "panic", res |-> None, err |-> what]

\* A collaborator call of the run and what it returned.
Called(op, ret) == [op |-> op, ret |-> ret]

TransportError == "transport error"

StorageError == "storage error"

\* What the Remote Fetcher (next.run) answers: a transport error, or a response
\* of some status.
OriginOutcomes == {[ok |-> FALSE, status |-> 0]} \cup {[ok |-> TRUE, status |-> s] : s \in Statuses}

----------------------------------------------------------------------------
(* Cache::run, Cache::conditional_fetch, Cache::remote_fetch *)

is_method_get_head(method) == method = MethodGet \/ method = MethodHead

\* A slip in lines 40-42: the method test left out.
is_cacheable_any_method(method, m) == m # "NoStore" /\ m # "Reload"

\* Cache::run, lines 40-42.
is_cacheable(method, m) == is_method_get_head(method) /\ m # "NoStore" /\ m # "Reload"

\* A slip in lines 169-171: the status test left out.
is_storable_any_status(method, m, status) == m # "NoStore" /\ is_method_get_head(method)

\* Cache::remote_fetch, lines 169-171.
is_storable(method, m, status) == m # "NoStore" /\ is_method_get_head(method) /\ status = StatusOk

\* Freshness Policy, is_fresh(request, stored_response): its verdict.
FreshnessVerdicts == BOOLEAN

\* fn is_stale: unimplemented!().  A call returns no value (None): it panics.
is_stale(rq, res) == None

\* fn set_revalidation_headers: unimplemented!().  A call panics.
set_revalidation_headers(rq) == None

\* A slip in line 69: the OnlyIfCached arm of the condition left out.
serves_disconnected_force_only(m) == m = "ForceCache"

\* Cache::run, line 69: the modes that serve a stored entry without asking the
\* origin.
serves_disconnected(m) == m = "ForceCache" \/ m = "OnlyIfCached"

\* Cache::run, lines 74-77: the 112 warning appended to the stored entry.
disconnected_response(rq, res) ==
    append_header_Warning(res, build_warning(rq.url, 112, "\"Disconnected operation\""))

\* Cache::conditional_fetch, lines 107-110 and 134-137.
revalidation_failed(rq, cached_res) ==
    append_header_Warning(cached_res, build_warning(rq.url, 111, "\"Revalidation failed\""))

\* format!("Miscellaneous Warning {}", e), debug-quoted by build_warning.
MiscellaneousText(e) ==
    IF e = TransportError THEN "\"Miscellaneous Warning transport error\""
    ELSE "\"Miscellaneous Warning storage error\""

\* Cache::conditional_fetch, lines 113-118: the status and headers of cond_res
\* (append_header(key, value.as_str()) copies the first value of each header)
\* over the body of cached_res.
merged_response(cond_res, cached_res) ==
    [status |-> cond_res.status,
     warning |-> IF cond_res.warning = <<>> THEN <<>> ELSE <<as_str(cond_res.warning)>>,
     cacheControl |-> IF cond_res.cacheControl = <<>> THEN <<>>
                      ELSE <<as_str(cond_res.cacheControl)>>,
     body |-> cached_res.body]

Finish(r) == pc' = "done" /\ result' = r /\ UNCHANGED <<frame, putting>>

\* Cache::conditional_fetch, lines 99-156: the match on what remote_fetch
\* returned.  Reached only if set_revalidation_headers returns.
conditional_fetch_match(outcome) ==
    LET rq == Unwrap(req)
        cached_res == Unwrap(hit)
    IN  IF outcome.kind = "ok"
        THEN LET cond_res == Unwrap(outcome.res)
             IN  IF is_server_error(cond_res.status) /\ must_revalidate(cached_res)
                 THEN Finish(Ok(revalidation_failed(rq, cached_res)))
                 ELSE IF cond_res.status = StatusNotModified
                 THEN /\ pc' = "put"
                      /\ frame' = "conditional_fetch:119"
                      /\ putting' = Some(merged_response(cond_res, cached_res))
                      /\ UNCHANGED result
                 ELSE Finish(Ok(cached_res))
        ELSE IF must_revalidate(cached_res)
             THEN Finish(outcome)
             ELSE Finish(Ok(append_header_Warning(
                                revalidation_failed(rq, cached_res),
                                build_warning(rq.url, 199, MiscellaneousText(outcome.err)))))

\* remote_fetch hands its outcome to its caller: run (lines 45, 80, 86), which
\* returns it, or conditional_fetch (line 99).
remote_fetch_returns(outcome) ==
    IF frame = "run" THEN Finish(outcome) ELSE conditional_fetch_match(outcome)

\* Cache::conditional_fetch, lines 97-99, up to the await of next.run.
conditional_fetch(rq, cached_res) ==
    IF set_revalidation_headers(rq) = None
    THEN Finish(Panic("not implemented: set_revalidation_headers"))
    ELSE /\ pc' = "next"
         /\ frame' = "conditional_fetch"
         /\ UNCHANGED <<result, putting>>

\* Cache::run, lines 65-81: what run does with the entry get returned.
run_hit(rq, res) ==
    IF mode = "Default"
    THEN IF is_stale(rq, res) = None
         THEN Finish(Panic("not implemented: is_stale"))
         ELSE IF ~Unwrap(is_stale(rq, res))
         THEN Finish(Ok(res))
         ELSE conditional_fetch(rq, res)
    ELSE IF serves_disconnected(mode)
    THEN Finish(Ok(disconnected_response(rq, res)))
    ELSE /\ pc' = "next"
         /\ UNCHANGED <<result, frame, putting>>

\* Cache::run, lines 82-87: no entry.
run_miss ==
    IF mode = "OnlyIfCached"
    THEN Finish(Panic("not implemented: ENOTCACHED"))
    ELSE /\ pc' = "next"
         /\ UNCHANGED <<result, frame, putting>>

----------------------------------------------------------------------------
(* The state machine *)

Idle ==
    /\ pc = "idle"
    /\ req = None /\ origin = None /\ policyFresh = None /\ hit = None /\ fetched = None
    /\ entry0 = None /\ calls = <<>> /\ result = NoResult /\ frame = "run" /\ putting = None

\* One request is served at a time.
Sequential == suspended = None

\* What a store can hold under a key when an engine is built over it: nothing,
\* or a response an earlier engine over the same store has put there.
StoredEntries(k) ==
    {None} \cup {Some(r) : r \in {x \in Responses : is_storable(k[1], "Default", x.status)}}

\* Cache { mode, cache_manager }: a mode, and a CacheManager over a durable store.
Init ==
    /\ mode \in CacheMode
    /\ cache \in {c \in [Keys -> UNION {StoredEntries(k) : k \in Keys}] :
                     \A k \in Keys : c[k] \in StoredEntries(k)}
    /\ served = 0
    /\ Idle
    /\ Sequential

\* Cache::run, lines 40-48: a request comes in; run goes to remote_fetch or
\* asks the CacheManager.
RunCall(rq, o) ==
    /\ pc = "idle"
    /\ served < MaxRuns
    /\ served' = served + 1
    /\ req' = Some(rq)
    /\ origin' = Some(o)
    /\ entry0' = cache[req_key(rq)]
    /\ pc' = IF is_cacheable(rq.method, mode) THEN "get" ELSE "next"
    /\ UNCHANGED <<mode, suspended, cache, policyFresh, hit, fetched, calls, result, frame, putting>>

\* CacheManager::get fails: line 48, `?`.
GetFails ==
    /\ pc = "get"
    /\ calls' = Append(calls, Called("get", "Err"))
    /\ Finish(Err(StorageError))
    /\ UNCHANGED <<mode, suspended, cache, req, origin, policyFresh, hit, fetched, entry0, served>>

\* CacheManager::get returns None: lines 82-87.
GetMiss ==
    /\ pc = "get"
    /\ cache[req_key(Unwrap(req))] = None
    /\ calls' = Append(calls, Called("get", "None"))
    /\ run_miss
    /\ UNCHANGED <<mode, suspended, cache, req, origin, policyFresh, hit, fetched, entry0, served>>

\* CacheManager::get returns Some(res): lines 48-81.  In Default mode the
\* Freshness Policy has a verdict on the entry, which is_stale is to report.
GetHit ==
    /\ pc = "get"
    /\ cache[req_key(Unwrap(req))] # None
    /\ calls' = Append(calls, Called("get", "Some"))
    /\ LET res == strip_1xx(Unwrap(cache[req_key(Unwrap(req))]))
       IN  /\ hit' = Some(res)
           /\ run_hit(Unwrap(req), res)
    /\ IF mode = "Default"
       THEN \E f \in FreshnessVerdicts : policyFresh' = Some(f)
       ELSE UNCHANGED policyFresh
    /\ UNCHANGED <<mode, suspended, cache, req, origin, fetched, entry0, served>>

\* Cache::remote_fetch, line 166: next.run fails.
FetchFails ==
    /\ pc = "next"
    /\ ~Unwrap(origin).ok
    /\ calls' = Append(calls, Called("fetch", "Err"))
    /\ remote_fetch_returns(Err(TransportError))
    /\ UNCHANGED <<mode, suspended, cache, req, origin, policyFresh, hit, fetched, entry0, served>>

\* Cache::remote_fetch, lines 166-181: next.run returns a response.
FetchReturns(res) ==
    /\ pc = "next"
    /\ Unwrap(origin).ok
    /\ res.status = Unwrap(origin).status
    /\ calls' = Append(calls, Called("fetch", "Ok"))
    /\ fetched' = Some(res)
    /\ IF is_storable(Unwrap(req).method, mode, res.status)
       THEN /\ pc' = "put"
            /\ putting' = Some(res)
            /\ UNCHANGED <<result, frame>>
       ELSE IF ~is_method_get_head(Unwrap(req).method)
       THEN /\ pc' = "delete"
            /\ UNCHANGED <<result, frame, putting>>
       ELSE remote_fetch_returns(Ok(res))
    /\ UNCHANGED <<mode, suspended, cache, req, origin, policyFresh, hit, entry0, served>>

\* A manager that keeps the first entry written under a key.
put_entry_if_absent(store, key, res) ==
    IF store[key] = None THEN [store EXCEPT ![key] = Some(res)] ELSE store

\* CacheManager::put on the store: the entry under the key is replaced.
put_entry(store, key, res) == [store EXCEPT ![key] = Some(res)]

\* CacheManager::put stores the response under the request's key and hands
\* it back: line 175 (remote_fetch) or line 119 (conditional_fetch).
PutReturns ==
    /\ pc = "put"
    /\ calls' = Append(calls, Called("put", "Ok"))
    /\ cache' = put_entry(cache, req_key(Unwrap(req)), Unwrap(putting))
    /\ IF frame = "conditional_fetch:119"
       THEN Finish(Ok(Unwrap(putting)))
       ELSE remote_fetch_returns(Ok(Unwrap(putting)))
    /\ UNCHANGED <<mode, suspended, req, origin, policyFresh, hit, fetched, entry0, served>>

\* CacheManager::put fails: `?` at line 175 or line 119.
PutFails ==
    /\ pc = "put"
    /\ calls' = Append(calls, Called("put", "Err"))
    /\ IF frame = "conditional_fetch:119"
       THEN Finish(Err(StorageError))
       ELSE remote_fetch_returns(Err(StorageError))
    /\ UNCHANGED <<mode, suspended, cache, req, origin, policyFresh, hit, fetched, entry0, served>>

\* CacheManager::delete removes the entry under the request's key: lines 177-178.
DeleteReturns ==
    /\ pc = "delete"
    /\ calls' = Append(calls, Called("delete", "Ok"))
    /\ cache' = [cache EXCEPT ![req_key(Unwrap(req))] = None]
    /\ remote_fetch_returns(Ok(Unwrap(fetched)))
    /\ UNCHANGED <<mode, suspended, req, origin, policyFresh, hit, fetched, entry0, served>>

\* CacheManager::delete fails: `?` at line 177.
DeleteFails ==
    /\ pc = "delete"
    /\ calls' = Append(calls, Called("delete", "Err"))
    /\ remote_fetch_returns(Err(StorageError))
    /\ UNCHANGED <<mode, suspended, cache, req, origin, policyFresh, hit, fetched, entry0, served>>

\* The caller has the result; the engine is ready for the next request.
RunEnds ==
    /\ pc = "done"
    /\ pc' = "idle"
    /\ req' = None /\ origin' = None /\ policyFresh' = None /\ hit' = None
    /\ fetched' = None /\ entry0' = None /\ calls' = <<>> /\ result' = NoResult
    /\ frame' = "run" /\ putting' = None
    /\ UNCHANGED <<mode, suspended, cache, served>>

Next ==
    \/ \E rq \in Requests, o \in OriginOutcomes : RunCall(rq, o)
    \/ GetFails
    \/ GetMiss
    \/ GetHit
    \/ FetchFails
    \/ \E res \in Responses : FetchReturns(res)
    \/ PutReturns
    \/ PutFails
    \/ DeleteReturns
    \/ DeleteFails
    \/ RunEnds

Spec == Init /\ [][Next]_vars

----------------------------------------------------------------------------
(* The helper functions on their own, driven as the tests of lib.rs        *)
(* (mod tests, lines 259-281) drive them, over more inputs.  hit is the    *)
(* response under test, calls the helper called and what it returned.      *)

WarningTexts == {"\"Revalidation failed\"", "\"\""}

NoHeaders == [warning |-> <<>>, cacheControl |-> <<>>]

\* The lists of values a Cache-Control header can have.
CacheControlHeaders == UNION {[1..n -> DOMAIN Chars] : n \in 0..MaxHeaderValues}

TestInit ==
    /\ mode = "Default"
    /\ cache = [k \in Keys |-> None]
    /\ served = 0
    /\ Idle
    /\ Sequential

\* tests::can_get_warning_code, lines 265-272: a response with a Warning built
\* by build_warning is handed to get_warning_code.  build_warning panics at
\* its expect("Invalid URL") when the URL has no host.
can_get_warning_code(url, code, message) ==
    /\ pc = "idle"
    /\ pc' = "done"
    /\ req' = Some([method |-> MethodGet, url |-> url])
    /\ IF url_host[url] = None
       THEN /\ calls' = <<Called("build_warning", None)>>
            /\ result' = Panic("Invalid URL")
            /\ UNCHANGED hit
       ELSE LET res == append_header_Warning(Response(StatusOk, NoHeaders, EmptyBody),
                                             build_warning(url, code, message))
            IN  /\ hit' = Some(res)
                /\ calls' = <<Called("get_warning_code", get_warning_code(res))>>
                /\ UNCHANGED result
    /\ UNCHANGED <<mode, suspended, cache, origin, policyFresh, fetched, entry0, frame, putting, served>>

\* tests::can_check_revalidate, lines 274-280: a response with a Cache-Control
\* header is handed to must_revalidate.
can_check_revalidate(values) ==
    /\ pc = "idle"
    /\ pc' = "done"
    /\ LET res == Response(StatusOk, [warning |-> <<>>, cacheControl |-> values], EmptyBody)
       IN  /\ hit' = Some(res)
           /\ calls' = <<Called("must_revalidate", must_revalidate(res))>>
    /\ UNCHANGED <<mode, suspended, cache, req, origin, policyFresh, fetched, entry0, result, frame,
                   putting, served>>

TestNext ==
    \/ \E url \in DOMAIN url_host, code \in WarnCodes, message \in WarningTexts :
          can_get_warning_code(url, code, message)
    \/ \E values \in CacheControlHeaders : can_check_revalidate(values)
    \/ RunEnds

SpecTests == TestInit /\ [][TestNext]_vars

----------------------------------------------------------------------------
(* CACacheManager, src/src/managers/cacache.rs.  cache is the cacache       *)
(* directory: under each req_key, the Store last written, or nothing.      *)

\* A test session makes up to MaxManagerCalls calls on the manager.
MaxManagerCalls == 2

\* fn to_store, lines 35-45: the body, and a HashMap<String, String> of the
\* headers, which keeps one string per header name (header.1.as_str()).  The
\* status is not stored.
to_store(res) ==
    [body |-> res.body,
     headers |-> [warning |-> IF res.warning = <<>> THEN None
                              ELSE Some(as_str(res.warning)),
                  cacheControl |-> IF res.cacheControl = <<>> THEN None
                                   ELSE Some(as_str(res.cacheControl))]]

\* fn from_store, lines 47-56: Response::new(StatusCode::Ok), the stored
\* headers inserted, the stored body set.
from_store(store) ==
    Response(StatusOk,
             [warning |-> IF store.headers.warning = None THEN <<>>
                          ELSE <<Unwrap(store.headers.warning)>>,
              cacheControl |-> IF store.headers.cacheControl = None THEN <<>>
                               ELSE <<Unwrap(store.headers.cacheControl)>>],
             store.body)

\* CACacheManager::put, lines 92-98: the response handed back.  to_store has
\* read the body of res (body_bytes takes it), so the body_bytes of line 93
\* finds it empty; the status and every header value are copied.
put_response(res) == [res EXCEPT !.body = EmptyBody]

\* What the manager is handed in a test: responses of a storable and of another
\* status, with no header, single-valued headers and two-valued headers, with a
\* body and without.
ManagerHeaderSets ==
    { NoHeaders,
      [warning |-> << RfcWarning(110, "proxy", "\"Response is stale\"") >>,
       cacheControl |-> <<"no-cache">>],
      [warning |-> << RfcWarning(110, "proxy", "\"Response is stale\""),
                      build_warning("https://example.com/a", 214, "\"Transformation applied\"") >>,
       cacheControl |-> <<"no-cache", "no-store">>] }

ManagerResponses ==
    {Response(s, h, b) : s \in {StatusOk, 404}, h \in ManagerHeaderSets,
                         b \in {"body-1", EmptyBody}}

\* Ok(None) of get, Ok(()) of delete and clear.
OkNone == [kind |-> "ok", res |-> None, err |-> ""]

ManagerInit ==
    /\ mode = "Default"
    /\ cache = [k \in Keys |-> None]
    /\ served = 0
    /\ Idle
    /\ Sequential

\* The next call of a session: every call of a session is for one request.
ManagerCall(rq) ==
    /\ pc \in {"idle", "done"}
    /\ Len(calls) < MaxManagerCalls
    /\ req \in {None, Some(rq)}
    /\ req' = Some(rq)
    /\ pc' = "done"
    /\ UNCHANGED <<mode, suspended, origin, policyFresh, hit, fetched, entry0, frame, served>>

\* CACacheManager::put, lines 83-99.
ManagerPut(rq, res) ==
    /\ ManagerCall(rq)
    /\ putting' = Some(res)
    /\ cache' = [cache EXCEPT ![req_key(rq)] = Some(to_store(res))]
    /\ calls' = Append(calls, Called("put", "Ok"))
    /\ result' = Ok(put_response(res))

\* CACacheManager::put, line 91: cacache::write fails.
ManagerPutFails(rq, res) ==
    /\ ManagerCall(rq)
    /\ putting' = Some(res)
    /\ calls' = Append(calls, Called("put", "Err"))
    /\ result' = Err(StorageError)
    /\ UNCHANGED cache

\* CACacheManager::get, lines 72-80: cacache::read returns the data.
ManagerGet(rq) ==
    /\ ManagerCall(rq)
    /\ cache[req_key(rq)] # None
    /\ calls' = Append(calls, Called("get", "Some"))
    /\ result' = Ok(from_store(Unwrap(cache[req_key(rq)])))
    /\ UNCHANGED <<cache, putting>>

\* CACacheManager::get, lines 73-78: cacache::read returns Err, because there
\* is no entry under the key or because reading it failed; get returns
\* Ok(None) either way.
ManagerGetReadErr(rq, cause) ==
    /\ ManagerCall(rq)
    /\ cause = "entry not found" => cache[req_key(rq)] = None
    /\ calls' = Append(calls, Called("get", cause))
    /\ result' = OkNone
    /\ UNCHANGED <<cache, putting>>

\* CACacheManager::delete, lines 101-103.
ManagerDelete(rq) ==
    /\ ManagerCall(rq)
    /\ cache' = [cache EXCEPT ![req_key(rq)] = None]
    /\ calls' = Append(calls, Called("delete", "Ok"))
    /\ result' = OkNone
    /\ UNCHANGED putting

\* CACacheManager::delete, line 102: cacache::remove fails.
ManagerDeleteFails(rq) ==
    /\ ManagerCall(rq)
    /\ calls' = Append(calls, Called("delete", "Err"))
    /\ result' = Err(StorageError)
    /\ UNCHANGED <<cache, putting>>

\* CACacheManager::clear, lines 64-67.
ManagerClear(rq) ==
    /\ ManagerCall(rq)
    /\ cache' = [k \in Keys |-> None]
    /\ calls' = Append(calls, Called("clear", "Ok"))
    /\ result' = OkNone
    /\ UNCHANGED putting

ReadErrors == {"entry not found", "read error"}

ManagerNext ==
    \/ \E rq \in Requests, res \in ManagerResponses : ManagerPut(rq, res)
    \/ \E rq \in Requests, res \in ManagerResponses : ManagerPutFails(rq, res)
    \/ \E rq \in Requests : ManagerGet(rq)
    \/ \E rq \in Requests, cause \in ReadErrors : ManagerGetReadErr(rq, cause)
    \/ \E rq \in Requests : ManagerDelete(rq)
    \/ \E rq \in Requests : ManagerDeleteFails(rq)
    \/ \E rq \in Requests : ManagerClear(rq)
    \/ RunEnds

SpecManager == ManagerInit /\ [][ManagerNext]_vars

----------------------------------------------------------------------------
(* The engine over the CACacheManager: Cache { mode, cache_manager } with  *)
(* get, put and delete as cacache.rs has them.                             *)

\* The directory holds what earlier puts of an engine wrote.
CacacheEntries(k) == {None} \cup {Some(to_store(Unwrap(e))) : e \in StoredEntries(k) \ {None}}

CacacheInit ==
    /\ mode \in CacheMode
    /\ cache \in {c \in [Keys -> UNION {CacacheEntries(k) : k \in Keys}] :
                     \A k \in Keys : c[k] \in CacacheEntries(k)}
    /\ served = 0
    /\ Idle
    /\ Sequential

\* CACacheManager::get returns Some(from_store(&store)): run, lines 48-81.
CacacheGetHit ==
    /\ pc = "get"
    /\ cache[req_key(Unwrap(req))] # None
    /\ calls' = Append(calls, Called("get", "Some"))
    /\ LET res == strip_1xx(from_store(Unwrap(cache[req_key(Unwrap(req))])))
       IN  /\ hit' = Some(res)
           /\ run_hit(Unwrap(req), res)
    /\ IF mode = "Default"
       THEN \E f \in FreshnessVerdicts : policyFresh' = Some(f)
       ELSE UNCHANGED policyFresh
    /\ UNCHANGED <<mode, suspended, cache, req, origin, fetched, entry0, served>>

\* CACacheManager::get, lines 75-77: reading the entry failed; get returns
\* Ok(None), and run goes on as for a missing entry (lines 82-87).
CacacheGetReadErr ==
    /\ pc = "get"
    /\ calls' = Append(calls, Called("get", "read error"))
    /\ run_miss
    /\ UNCHANGED <<mode, suspended, cache, req, origin, policyFresh, hit, fetched, entry0, served>>

\* CACacheManager::put writes to_store(res) under the request's key and hands
\* back put_response(res): line 175 (remote_fetch) or line 119
\* (conditional_fetch).
CacachePutReturns ==
    /\ pc = "put"
    /\ calls' = Append(calls, Called("put", "Ok"))
    /\ cache' = [cache EXCEPT ![req_key(Unwrap(req))] = Some(to_store(Unwrap(putting)))]
    /\ IF frame = "conditional_fetch:119"
       THEN Finish(Ok(put_response(Unwrap(putting))))
       ELSE remote_fetch_returns(Ok(put_response(Unwrap(putting))))
    /\ UNCHANGED <<mode, suspended, req, origin, policyFresh, hit, fetched, entry0, served>>

\* GetFails here is line 74, bincode::deserialize(&d)?; GetMiss is the
\* cacache::read Err of a key with no entry.
CacacheNext ==
    \/ \E rq \in Requests, o \in OriginOutcomes : RunCall(rq, o)
    \/ GetFails
    \/ GetMiss
    \/ CacacheGetReadErr
    \/ CacacheGetHit
    \/ FetchFails
    \/ \E res \in Responses : FetchReturns(res)
    \/ CacachePutReturns
    \/ PutFails
    \/ DeleteReturns
    \/ DeleteFails
    \/ RunEnds

SpecCacache == CacacheInit /\ [][CacacheNext]_vars

----------------------------------------------------------------------------
(* impl Middleware for Cache, lines 246-257: the entry point surf calls    *)
(* for each request of a client the Cache is installed on.                 *)

\* Middleware::handle, line 254, up to the await of next.run.
handle(rq, o) ==
    /\ pc = "idle"
    /\ served < MaxRuns
    /\ served' = served + 1
    /\ req' = Some(rq)
    /\ origin' = Some(o)
    /\ entry0' = cache[req_key(rq)]
    /\ frame' = "handle"
    /\ pc' = "next"
    /\ UNCHANGED <<mode, suspended, cache, policyFresh, hit, fetched, calls, result, putting>>

\* Middleware::handle, line 254: next.run fails, `?`.
HandleNextFails ==
    /\ pc = "next" /\ frame = "handle"
    /\ ~Unwrap(origin).ok
    /\ calls' = Append(calls, Called("fetch", "Err"))
    /\ Finish(Err(TransportError))
    /\ UNCHANGED <<mode, suspended, cache, req, origin, policyFresh, hit, fetched, entry0, served>>

\* Middleware::handle, lines 254-255: next.run returns a response, Ok(res).
HandleNextReturns(res) ==
    /\ pc = "next" /\ frame = "handle"
    /\ Unwrap(origin).ok
    /\ res.status = Unwrap(origin).status
    /\ calls' = Append(calls, Called("fetch", "Ok"))
    /\ fetched' = Some(res)
    /\ Finish(Ok(res))
    /\ UNCHANGED <<mode, suspended, cache, req, origin, policyFresh, hit, entry0, served>>

MiddlewareNext ==
    \/ \E rq \in Requests, o \in OriginOutcomes : handle(rq, o)
    \/ HandleNextFails
    \/ \E res \in Responses : HandleNextReturns(res)
    \/ RunEnds

SpecMiddleware == Init /\ [][MiddlewareNext]_vars

----------------------------------------------------------------------------
(* Two run invocations at a time on one engine and one CacheManager, for   *)
(* the same request key.  run is an async fn: at each await the task can   *)
(* be suspended and the other one resumed.  The variables of a run hold    *)
(* the invocation that is running; suspended holds the other one.  The     *)
(* manager's calls are atomic, and calls is the order they took effect in, *)
(* with a mark where the running invocation changed.                       *)

\* The two invocations ask for the same resource.
ConcurrentRequests == {[method |-> MethodGet, url |-> "https://example.com/a"]}

\* What the origin sends them.
ConcurrentResponses == {r \in Responses : r.warning = <<>>}

Switched == Called("switch", "")

\* The state of the invocation that is running.
Running ==
    [pc |-> pc, req |-> req, origin |-> origin, policyFresh |-> policyFresh, hit |-> hit,
     fetched |-> fetched, entry0 |-> entry0, result |-> result, frame |-> frame,
     putting |-> putting]

\* An invocation that has not been called yet.
NotCalled ==
    [pc |-> "idle", req |-> None, origin |-> None, policyFresh |-> None, hit |-> None,
     fetched |-> None, entry0 |-> None, result |-> NoResult, frame |-> "run",
     putting |-> None]

ConcurrentInit ==
    /\ mode \in CacheMode
    /\ cache \in {c \in [Keys -> UNION {StoredEntries(k) : k \in Keys}] :
                     \A k \in Keys :
                         /\ c[k] \in StoredEntries(k)
                         /\ k \notin {req_key(rq) : rq \in ConcurrentRequests} => c[k] = None}
    /\ served = 0
    /\ Idle
    /\ suspended = Some(NotCalled)

\* The running invocation is suspended at its await (or has not begun, or has
\* ended) and the other one is resumed.
Switch ==
    /\ suspended # None
    /\ suspended' = Some(Running)
    /\ LET other == Unwrap(suspended)
       IN  /\ pc' = other.pc /\ req' = other.req /\ origin' = other.origin
           /\ policyFresh' = other.policyFresh /\ hit' = other.hit
           /\ fetched' = other.fetched /\ entry0' = other.entry0
           /\ result' = other.result /\ frame' = other.frame /\ putting' = other.putting
    /\ calls' = IF calls # <<>> /\ calls[Len(calls)] = Switched
                THEN SubSeq(calls, 1, Len(calls) - 1)
                ELSE Append(calls, Switched)
    /\ UNCHANGED <<mode, cache, served>>

ConcurrentNext ==
    \/ \E rq \in ConcurrentRequests, o \in OriginOutcomes : RunCall(rq, o)
    \/ GetFails
    \/ GetMiss
    \/ GetHit
    \/ FetchFails
    \/ \E res \in ConcurrentResponses : FetchReturns(res)
    \/ PutReturns
    \/ PutFails
    \/ Switch

SpecConcurrent == ConcurrentInit /\ [][ConcurrentNext]_vars

----------------------------------------------------------------------------
(* Claims *)

Done == pc = "done"

TheRequest == Unwrap(req)

TheKey == req_key(TheRequest)

GetOrHead == req # None /\ is_method_get_head(TheRequest.method)

CalledOps == {calls[i].op : i \in 1..Len(calls)}

GotSome == \E i \in 1..Len(calls) : calls[i] = Called("get", "Some")

GotNone == \E i \in 1..Len(calls) : calls[i] = Called("get", "None")

\* The typed failure of an OnlyIfCached miss.
NotCached == "NotCached"

\* The warn-code of one Warning value, read the way get_warning_code reads it.
CodeOfValue(value) ==
    get_warning_code([status |-> StatusOk, warning |-> <<value>>, cacheControl |-> <<>>,
                      body |-> "body-1"])

\* The warn-code of one Warning value read as RFC 2616 writes it:
\* warn-code SP warn-agent SP warn-text.
RfcCodeOfValue(value) == ParseUsize(value[1])

\* res is base with exactly the Warning values of the given codes appended, in order.
AppendsCodes(res, base, codes) ==
    /\ res.status = base.status
    /\ res.body = base.body
    /\ res.cacheControl = base.cacheControl
    /\ Len(res.warning) = Len(base.warning) + Len(codes)
    /\ SubSeq(res.warning, 1, Len(base.warning)) = base.warning
    /\ \A i \in 1..Len(codes) : CodeOfValue(res.warning[Len(base.warning) + i]) = Some(codes[i])

\* C1: a GET or HEAD run in mode OnlyIfCached whose get found no entry ends
\* with the typed failure NotCached, and the Remote Fetcher is not invoked.
C1_OnlyIfCachedMissIsNotCached ==
    (Done /\ GetOrHead /\ mode = "OnlyIfCached" /\ GotNone)
        => (result = Err(NotCached) /\ "fetch" \notin CalledOps)

C3_FreshHitVerbatim ==
    (Done /\ GetOrHead /\ mode = "Default" /\ GotSome /\ policyFresh = Some(TRUE))
        => /\ result = Ok(Unwrap(hit))
           /\ calls = <<Called("get", "Some")>>
           /\ cache[TheKey] = entry0

\* A GET or HEAD run in mode Default whose get found an entry the Freshness
\* Policy reports stale has ended: the case conditional revalidation is for.
StaleHitDone ==
    Done /\ GetOrHead /\ mode = "Default" /\ GotSome /\ policyFresh = Some(FALSE)

OriginFails == ~Unwrap(origin).ok

OriginAnswers(status) == Unwrap(origin).ok /\ Unwrap(origin).status = status

\* C4: when the revalidation of a stale entry is answered 304, the response
\* returned and the entry put under the request's key carry the headers of the
\* 304 response and the body of the entry as it was stored.
C4_NotModifiedMerges ==
    (StaleHitDone /\ OriginAnswers(StatusNotModified))
        => /\ result.kind = "ok"
           /\ fetched # None
           /\ Unwrap(result.res).warning = Unwrap(fetched).warning
           /\ Unwrap(result.res).cacheControl = Unwrap(fetched).cacheControl
           /\ Unwrap(result.res).body = Unwrap(entry0).body
           /\ cache[TheKey] = result.res

\* C5: when the revalidation fetch of a stale entry fails and the entry has no
\* must-revalidate, run returns the stale entry with exactly two Warning values
\* appended, of codes 111 and 199 in that order.
C5_StaleOnTransportError ==
    (StaleHitDone /\ OriginFails /\ ~must_revalidate(Unwrap(entry0)))
        => /\ result.kind = "ok"
           /\ AppendsCodes(Unwrap(result.res), Unwrap(hit), <<111, 199>>)

\* C6: when the revalidation fetch of a stale entry fails and the entry has
\* must-revalidate, run fails with the transport error and the store's entry
\* under the key is what it was: no put, no delete.
C6_MustRevalidateFailsClosed ==
    (StaleHitDone /\ OriginFails /\ must_revalidate(Unwrap(entry0)))
        => /\ result = Err(TransportError)
           /\ cache[TheKey] = entry0
           /\ CalledOps \cap {"put", "delete"} = {}

\* C7: when the revalidation fetch is answered with a status other than 304,
\* and not with a server error for an entry that has must-revalidate, run returns
\* the origin's response and leaves the store's entry under the key as it was.
C7_OtherStatusReturnsNew ==
    (/\ StaleHitDone
     /\ Unwrap(origin).ok
     /\ Unwrap(origin).status # StatusNotModified
     /\ ~(must_revalidate(Unwrap(entry0)) /\ is_server_error(Unwrap(origin).status)))
        => /\ result.kind = "ok"
           /\ result.res = fetched
           /\ cache[TheKey] = entry0

\* C8: when the revalidation fetch is answered with a server error and the entry
\* has must-revalidate, run returns the stale entry with exactly one Warning
\* value appended, of code 111, and neither the 5xx response nor an error.
C8_ServerErrorServesStale ==
    (/\ StaleHitDone
     /\ Unwrap(origin).ok
     /\ is_server_error(Unwrap(origin).status)
     /\ must_revalidate(Unwrap(entry0)))
        => /\ result.kind = "ok"
           /\ AppendsCodes(Unwrap(result.res), Unwrap(hit), <<111>>)

\* C9: a run for a method other than GET and HEAD, in any mode, never calls
\* get; once next.run has returned a response it calls delete for the request's
\* key, and only then returns that response.
C9_OtherMethodsBypassAndInvalidate ==
    (req # None /\ ~is_method_get_head(TheRequest.method))
        => /\ "get" \notin CalledOps
           /\ (Done /\ fetched # None)
                 => (Len(calls) = 2 /\ calls[1] = Called("fetch", "Ok")
                     /\ calls[2].op = "delete")
           /\ (Done /\ result.kind = "ok")
                 => (/\ result.res = fetched
                     /\ calls = <<Called("fetch", "Ok"), Called("delete", "Ok")>>
                     /\ cache[TheKey] = None)

C9_Witness ==
    /\ Done /\ TheRequest.method = MethodPost /\ mode = "Default"
    /\ result.kind = "ok"
    /\ calls = <<Called("fetch", "Ok"), Called("delete", "Ok")>>

\* A Warning value with a warn-code in [100,200), in the RFC 2616 syntax.
IsRfc1xx(value) ==
    /\ RfcCodeOfValue(value) # None
    /\ Unwrap(RfcCodeOfValue(value)) >= 100
    /\ Unwrap(RfcCodeOfValue(value)) < 200

HasRfc1xx(res) == \E i \in 1..Len(res.warning) : IsRfc1xx(res.warning[i])

\* C10: of a stored entry whose Warning header carries a warn-code in [100,200),
\* written warn-code SP warn-agent SP warn-text, the response run takes from get
\* and hands on has no Warning header, and no 1xx value of it reaches the caller.
C10_Stored1xxWarningStripped ==
    (GotSome /\ HasRfc1xx(Unwrap(entry0)))
        => /\ Unwrap(hit).warning = <<>>
           /\ (Done /\ result.kind = "ok")
                 => ~HasRfc1xx(Unwrap(result.res))

\* C11: every put stores a response of status 200, for a GET or HEAD request,
\* in a mode other than NoStore; and once next.run has returned a response, put
\* is called exactly when the mode is not NoStore, the method is GET or HEAD and
\* the status is 200.
C11_PutOnlyStorable ==
    /\ pc = "put"
          => (/\ Unwrap(putting).status = 200
              /\ GetOrHead
              /\ mode # "NoStore")
    /\ "put" \in CalledOps
          => (Unwrap(putting).status = 200 /\ GetOrHead /\ mode # "NoStore")
    /\ (Done /\ fetched # None)
          => ("put" \in CalledOps
                <=> (mode # "NoStore" /\ GetOrHead /\ Unwrap(fetched).status = 200))

C11_Witness ==
    /\ Done /\ mode = "Reload" /\ TheRequest.method = MethodHead
    /\ calls = <<Called("fetch", "Ok"), Called("put", "Ok")>>
    /\ cache[TheKey] = fetched

\* C15: every run ends by returning a Response or a typed failure; it never
\* panics.
C15_RunReturnsResponseOrFailure ==
    Done => result.kind \in {"ok", "err"}

\* C19: once a run for a method other than GET and HEAD has returned a
\* response for a URL, the store holds no entry of a GET or HEAD request for
\* that URL.
C19_MutationInvalidatesStoredGet ==
    (Done /\ req # None /\ ~is_method_get_head(TheRequest.method) /\ result.kind = "ok")
        => \A k \in Keys :
               (k[2] = TheRequest.url /\ is_method_get_head(k[1])) => cache[k] = None

\* build_warning's value for the inputs of the test that has run, if the test
\* was can_get_warning_code with these inputs.
BuiltFrom(url, c, message) ==
    /\ Done /\ req = Some([method |-> MethodGet, url |-> url])
    /\ url_host[url] # None
    /\ calls # <<>> /\ calls[1].op = "get_warning_code"
    /\ Unwrap(hit).warning = <<build_warning(url, c, message)>>

\* get_warning_code gives back the code build_warning was given.
BuiltWarningRoundTrips ==
    \A url \in DOMAIN url_host, c \in WarnCodes, message \in WarningTexts :
        BuiltFrom(url, c, message) => calls[1].ret = Some(c)

\* C13: for every 3-digit code c, message and URL, get_warning_code of a
\* response whose Warning value build_warning built with code c is Some(c), and
\* that is the leading 3-digit code of the value.
C13_BuiltWarningParsesLeadingCode ==
    /\ BuiltWarningRoundTrips
    /\ \A url \in DOMAIN url_host, c \in WarnCodes, message \in WarningTexts :
           BuiltFrom(url, c, message)
               => RfcCodeOfValue(as_str(Unwrap(hit).warning)) = Some(c)
    /\ Done => result.kind # "panic"

\* s contains must-revalidate, case-insensitively.
HasMustRevalidate(s) == contains(to_lowercase(Chars[s]), MustRevalidateDirective)

\* C14: must_revalidate is true exactly when some value of the response's
\* Cache-Control header contains must-revalidate, in any letter case, anywhere
\* in the value; it is false when there is no such header or no value has it.
C14_MustRevalidateDetectsDirective ==
    (Done /\ calls # <<>> /\ calls[1].op = "must_revalidate")
        => (calls[1].ret
              <=> \E i \in 1..Len(Unwrap(hit).cacheControl) :
                      HasMustRevalidate(Unwrap(hit).cacheControl[i]))

\* The values of a header, as a set.
Values(seq) == {seq[i] : i \in 1..Len(seq)}

\* C12: put(req, res) followed by get(req) returns a response with the status,
\* the set of header values under each header name, and the body of res,
\* whatever the status, the headers and the body of res.
C12_PutGetRoundTrip ==
    (calls = <<Called("put", "Ok"), Called("get", "Some")>>)
        => LET res == Unwrap(putting)
               got == Unwrap(result.res)
           IN  /\ got.status = res.status
               /\ Values(got.warning) = Values(res.warning)
               /\ Values(got.cacheControl) = Values(res.cacheControl)
               /\ got.body = res.body

\* C17: when reading the entry fails with a storage I/O error, get reports a
\* StorageError and run fails with it; the request does not go on to the
\* network or to the outcome of a miss.
C17_ReadErrorFailsRun ==
    (Done /\ \E i \in 1..Len(calls) : calls[i] = Called("get", "read error"))
        => (result = Err(StorageError) /\ "fetch" \notin CalledOps)

\* C18: when a fetched response is stored, the response remote_fetch returns,
\* which is the one put handed back, has the status, the headers and the body
\* of the response the origin sent.
C18_StoredResponseReturnedWhole ==
    (Done /\ frame = "run" /\ result.kind = "ok"
          /\ \E i \in 1..Len(calls) : calls[i] = Called("put", "Ok"))
        => result.res = fetched

\* C16: a request that came in through Middleware::handle goes through
\* run's dispatch: for a GET or HEAD in a mode other than NoStore and Reload
\* the CacheManager is asked first, and in mode OnlyIfCached such a request is
\* never sent to the next stage.
C16_HandleEntersEngine ==
    (Done /\ frame = "handle" /\ GetOrHead /\ mode \notin {"NoStore", "Reload"})
        => /\ calls # <<>> /\ calls[1].op = "get"
           /\ mode = "OnlyIfCached" => "fetch" \notin CalledOps

\* The invocation (0 or 1) that made the k-th entry of calls: the running
\* invocation changes at each mark.
Owner(k) == Cardinality({j \in 1..k : calls[j] = Switched}) % 2

\* The state of invocation o.
StateOf(o) == IF o = Owner(Len(calls)) THEN Running ELSE Unwrap(suspended)

FetchedBy(k, o) == calls[k] = Called("fetch", "Ok") /\ Owner(k) = o

PutBy(k, o) == calls[k] = Called("put", "Ok") /\ Owner(k) = o

\* Invocation i got what it puts at position a of calls: the response it
\* fetched, or, for the put of a 304 revalidation, the entry it read.
SourceOfPut(a, i) ==
    IF StateOf(i).frame = "conditional_fetch:119"
    THEN calls[a] = Called("get", "Some") /\ Owner(a) = i
    ELSE FetchedBy(a, i)

\* Invocation i has put, at position d, what it got at position a, over an
\* entry the other invocation fetched and put in between, with another body.
ReplacedNewer(a, d, i) ==
    /\ a < d /\ SourceOfPut(a, i) /\ PutBy(d, i)
    /\ \E b \in (a + 1)..(d - 1), c \in (a + 1)..(d - 1) :
          /\ b < c /\ FetchedBy(b, 1 - i) /\ PutBy(c, 1 - i)
          /\ Unwrap(StateOf(1 - i).putting).body # Unwrap(StateOf(i).putting).body

Puts == {k \in 1..Len(calls) : calls[k] = Called("put", "Ok")}

LastPut == CHOOSE k \in Puts : \A j \in Puts : j <= k

====
